---- MODULE Spec2Model ----
(***************************************************************************)
(* Model of the request handler audio_to_document (src/api/routes.py) of  *)
(* the lecture analysis API, together with the collaborators it calls:    *)
(* the input validator, the secure file store, the resilient external     *)
(* caller (retry + circuit breaker) and the telemetry recorder.           *)
(*                                                                         *)
(* The handler is an `async def` coroutine: it can be suspended, and      *)
(* another request can run, only at its two `await` expressions (lines 40 *)
(* and 47).  Everything between two awaits runs on the event loop without *)
(* interleaving; the variable `running` is the event loop's "current      *)
(* task".  The clock can advance at any moment.                           *)
(***************************************************************************)
EXTENDS Integers, Sequences, FiniteSets, TLC

\* ------------------------------------------------------------- bounds
NumRequests == 2

\* ------------------------------------------------- configuration values
MaxAttempts == 2
Threshold == 2
Cooldown == 1
PreviewLen == 2
DefaultScore == 50

DefaultReasoning == "Score generated"
InternalDetail == "Internal server error"
ExternalPrefix == "External service error: "

Requests == 1..NumRequests
Engines == {"transcription", "analysis", "scoring"}

\* What the three engines return when they succeed (opaque text, as words).
RawTranscript == <<"hello", "world", "secret">>
RawAnalysis == <<"ok", "analysis", "private">>

\* The mappings the scoring engine may return: both fields are optional.
ScoreValues == {0, 80}
ReasonValues == {"", "clear objectives"}
ScoreMaps ==
    {[score |-> s, reasoning |-> t] : s \in ScoreValues, t \in ReasonValues}
        \cup {[score |-> s] : s \in ScoreValues}
        \cup {[reasoning |-> t] : t \in ReasonValues}
        \cup {<<>>}

\* The reasons the validator rejects an upload with.
ValidationMessages == {"File too large", "Unsupported file type"}
\* The text of an unexpected failure (filesystem error, programming defect).
DefectText == "Traceback: /srv/app internal detail"

VARIABLES
    pc,          \* per request: position of the coroutine
    running,     \* the request the event loop is executing, 0 when idle
    request_id,  \* per request: line 31, 0 before the request starts
    temp_path,   \* per request: line 33/44, 0 stands for None
    success,     \* per request: line 34/94
    stage,       \* per request: the engine being called, "none" otherwise
    attempt,     \* per request: attempt number inside the current call
    transcript,  \* per request: line 55
    analysis,    \* per request: line 65
    score_data,  \* per request: line 75
    response_data, \* per request: line 87
    exc,         \* per request: the exception in flight inside the try block
    pending,     \* per request: what the handler will leave with after finally
    response,    \* per request: the envelopes delivered to the caller
    log,         \* per request: the structured log events, in order
    files,       \* file store: the temp files that exist
    written,     \* file store: the temp files holding uploaded bytes
    circuit,     \* per engine: "closed", "open", "half_open"
    failures,    \* per engine: failure counter
    elapsed,     \* per engine: time since the circuit opened, up to Cooldown
    metrics,     \* metrics_tracker: the process-wide aggregates
    recorded,    \* history, per request: the success flags recorded for it
    outcome,     \* history, per request: how the handler was left
    audio_path,  \* the path given to transcribe_audio (line 55); 0 before the call
    calls,       \* history, per request and engine: outcome of every attempt
    fault,       \* history, per request: where a failure was injected
    created,     \* history, per request: temp files created
    destroyed    \* history, per request: temp-file destructions performed

vars == <<pc, running, request_id, temp_path, success, stage, attempt,
          transcript, analysis, score_data, response_data, exc, pending,
          response, log, files, written, circuit, failures,
          elapsed, metrics, recorded, outcome, calls, fault, created, destroyed,
          audio_path>>

ctxVars == <<request_id, temp_path, success>>
dataVars == <<transcript, analysis, score_data, response_data>>
callVars == <<stage, attempt, calls, audio_path>>
fileVars == <<files, written, created, destroyed>>
breakerVars == <<circuit, failures, elapsed>>


\* ------------------------------------------------------------ helpers
NoExc == [type |-> "none", origin |-> "none", msg |-> ""]
Exc(t, o, m) == [type |-> t, origin |-> o, msg |-> m]

NoData == [analysis |-> <<>>, pedagogical_score |-> -1, score_reasoning |-> "none"]
NoOutcome == [kind |-> "none", status |-> 0, detail |-> <<>>, data |-> NoData]
SuccessResponse(rid, d) == [kind |-> "success", status |-> 200, detail |-> <<>>, data |-> d]
HTTPException(code, det) == [kind |-> "error", status |-> code, detail |-> det, data |-> NoData]
Cancelled == [kind |-> "cancelled", status |-> 0, detail |-> <<>>, data |-> NoData]

Range(s) == {s[i] : i \in DOMAIN s}

\* dict.get(key, default)
Get(m, k, d) == IF k \in DOMAIN m THEN m[k] ELSE d

\* sanitize_for_logging: a preview of at most PreviewLen words, marked when cut.
sanitize_for_logging(text) ==
    IF Len(text) > PreviewLen
    THEN SubSeq(text, 1, PreviewLen) \o <<"...[truncated]">>
    ELSE text

Event(name, field) == [event |-> name, field |-> field]
Logged(r, name, field) == log' = [log EXCEPT ![r] = Append(@, Event(name, field))]

Init ==
    /\ pc = [r \in Requests |-> "init"]
    /\ running = 0
    /\ request_id = [r \in Requests |-> 0]
    /\ temp_path = [r \in Requests |-> 0]
    /\ success = [r \in Requests |-> FALSE]
    /\ stage = [r \in Requests |-> "none"]
    /\ attempt = [r \in Requests |-> 0]
    /\ transcript = [r \in Requests |-> <<>>]
    /\ analysis = [r \in Requests |-> <<>>]
    /\ score_data = [r \in Requests |-> <<>>]
    /\ response_data = [r \in Requests |-> NoData]
    /\ exc = [r \in Requests |-> NoExc]
    /\ pending = [r \in Requests |-> NoOutcome]
    /\ response = [r \in Requests |-> <<>>]
    /\ log = [r \in Requests |-> <<>>]
    /\ files = {}
    /\ written = {}
    /\ circuit = [e \in Engines |-> "closed"]
    /\ failures = [e \in Engines |-> 0]
    /\ elapsed = [e \in Engines |-> 0]
    /\ metrics = [count |-> 0, success_count |-> 0]
    /\ recorded = [r \in Requests |-> <<>>]
    /\ outcome = [r \in Requests |-> "none"]
    /\ calls = [r \in Requests |-> [e \in Engines |-> <<>>]]
    /\ audio_path = [r \in Requests |-> 0]
    /\ fault = [r \in Requests |-> "none"]
    /\ created = [r \in Requests |-> 0]
    /\ destroyed = [r \in Requests |-> 0]

\* An exception raised inside the try block at the current position.
Raise(r, e) ==
    /\ exc' = [exc EXCEPT ![r] = e]
    /\ pc' = [pc EXCEPT ![r] = "except"]
    /\ running' = r

\* --------------------------------------------------- lines 31-40: entry
Begin(r) ==
    /\ pc[r] = "init"
    /\ running = 0
    /\ request_id' = [request_id EXCEPT ![r] = r]
    /\ temp_path' = [temp_path EXCEPT ![r] = 0]
    /\ success' = [success EXCEPT ![r] = FALSE]
    /\ Logged(r, "Received analysis request", <<>>)
    /\ pc' = [pc EXCEPT ![r] = "validate"]
    /\ UNCHANGED <<running, exc, pending, response, metrics, recorded, outcome, fault>>
    /\ UNCHANGED <<dataVars, callVars, fileVars, breakerVars>>

\* line 40 returns: the upload is accepted
ValidatePass(r) ==
    /\ pc[r] = "validate"
    /\ running = 0
    /\ running' = r
    /\ Logged(r, "File validation passed", <<>>)
    /\ pc' = [pc EXCEPT ![r] = "create"]
    /\ UNCHANGED <<exc, pending, response, metrics, recorded, outcome, fault>>
    /\ UNCHANGED <<ctxVars, dataVars, callVars, fileVars, breakerVars>>

\* line 40 raises: the validator rejects the upload with a reason
ValidateFail(r, msg) ==
    /\ pc[r] = "validate"
    /\ running = 0
    /\ Raise(r, Exc("ValueError", "validation", msg))
    /\ fault' = [fault EXCEPT ![r] = "validate"]
    /\ UNCHANGED <<pending, response, metrics, recorded, outcome, log>>
    /\ UNCHANGED <<ctxVars, dataVars, callVars, fileVars, breakerVars>>

\* ------------------------------------------- lines 43-51: the temp file
\* A name no existing file has (the first one, to stand for any of them).
NewPath ==
    CHOOSE p \in 1..(Cardinality(files) + 1) :
        p \notin files /\ \A q \in 1..(p - 1) : q \in files

\* SecureFileHandler.create_temp_file: a new, uniquely named, empty file
create_temp_file(r) ==
    /\ temp_path' = [temp_path EXCEPT ![r] = NewPath]
    /\ files' = files \cup {NewPath}
    /\ created' = [created EXCEPT ![r] = @ + 1]

\* Variant: temp_path is a variable of the module, one for all requests,
\* instead of a local of the handler.
CreateTempShared(r) ==
    /\ pc[r] = "create"
    /\ running = r
    /\ temp_path' = [q \in Requests |-> NewPath]
    /\ files' = files \cup {NewPath}
    /\ created' = [created EXCEPT ![r] = @ + 1]
    /\ pc' = [pc EXCEPT ![r] = "read"]
    /\ running' = 0
    /\ UNCHANGED <<request_id, success, exc, pending, response, log, metrics, recorded,
                   outcome, fault, written, destroyed>>
    /\ UNCHANGED <<dataVars, callVars, breakerVars>>

\* line 44 returns; line 47 suspends the coroutine in `await audio.read()`
CreateTemp(r) ==
    /\ pc[r] = "create"
    /\ running = r
    /\ create_temp_file(r)
    /\ pc' = [pc EXCEPT ![r] = "read"]
    /\ running' = 0
    /\ UNCHANGED <<request_id, success, exc, pending, response, log, metrics, recorded,
                   outcome, fault, written, destroyed>>
    /\ UNCHANGED <<dataVars, callVars, breakerVars>>

\* line 47 returns the uploaded bytes; line 48 opens the temp file
ReadUpload(r) ==
    /\ pc[r] = "read"
    /\ running = 0
    /\ running' = r
    /\ pc' = [pc EXCEPT ![r] = "write"]
    /\ UNCHANGED <<exc, pending, response, log, metrics, recorded, outcome, fault>>
    /\ UNCHANGED <<ctxVars, dataVars, callVars, fileVars, breakerVars>>

\* Variant: transcribe_audio is called before the with block of lines 48-49.
WriteUploadAfterTranscription(r) ==
    /\ pc[r] = "write"
    /\ running = r
    /\ Logged(r, "File saved temporarily", <<>>)
    /\ stage' = [stage EXCEPT ![r] = "transcription"]
    /\ audio_path' = [audio_path EXCEPT ![r] = temp_path[r]]
    /\ attempt' = [attempt EXCEPT ![r] = 1]
    /\ pc' = [pc EXCEPT ![r] = "dispatch"]
    /\ UNCHANGED <<running, exc, pending, response, metrics, recorded, outcome, fault, calls,
                   files, written, created, destroyed>>
    /\ UNCHANGED <<ctxVars, dataVars, breakerVars>>

\* lines 48-51: the bytes are written; line 54 enters the transcription call
WriteUpload(r) ==
    /\ pc[r] = "write"
    /\ running = r
    /\ written' = written \cup {temp_path[r]}
    /\ Logged(r, "File saved temporarily", <<>>)
    /\ stage' = [stage EXCEPT ![r] = "transcription"]
    /\ audio_path' = [audio_path EXCEPT ![r] = temp_path[r]]
    /\ attempt' = [attempt EXCEPT ![r] = 1]
    /\ pc' = [pc EXCEPT ![r] = "dispatch"]
    /\ UNCHANGED <<running, exc, pending, response, metrics, recorded, outcome, fault, calls,
                   files, created, destroyed>>
    /\ UNCHANGED <<ctxVars, dataVars, breakerVars>>

\* The statements of the try block, after validation, that can fail with an
\* error that is neither a validation failure nor an engine failure.
FaultPoints == {"create", "read", "write", "dispatch", "assemble"}
FaultOrigin(p, ty) ==
    IF p \in {"create", "read", "write"} /\ ty = "Exception"
    THEN "filesystem" ELSE "defect"

\* A statement of the try block raises an unexpected error: an OSError from
\* the file system (an Exception), or a defect raised as ValueError or as any
\* other Exception (pydantic's ValidationError is a ValueError).
StageFault(r, ty) ==
    /\ pc[r] \in FaultPoints
    /\ running = (IF pc[r] = "read" THEN 0 ELSE r)
    /\ Raise(r, Exc(ty, FaultOrigin(pc[r], ty), DefectText))
    /\ fault' = [fault EXCEPT ![r] = pc[r]]
    /\ UNCHANGED <<pending, response, metrics, recorded, outcome, log>>
    /\ UNCHANGED <<ctxVars, dataVars, callVars, fileVars, breakerVars>>

\* ------------------------------ the resilient external caller (per engine)
\* Before dispatch: an open circuit whose cool-down has not elapsed rejects.
CoolDownElapsed(e) == elapsed[e] >= Cooldown
CircuitRejects(e) == circuit[e] = "open" /\ ~CoolDownElapsed(e)

\* Variant: the circuit trips one failure late (`>` for `>=`).
TripsLate(e) == circuit[e] = "half_open" \/ failures[e] + 1 > Threshold

\* A failed invocation trips the circuit when it was the half-open probe or
\* when the failure counter reaches the threshold.
Trips(e) == circuit[e] = "half_open" \/ failures[e] + 1 >= Threshold

\* Variant: every failure is retried, whatever its class.
ShouldRetryAnyFailure(kind, n) == n < MaxAttempts

\* Only transient failures are retried, and only within the attempt budget.
ShouldRetry(kind, n) == kind = "transient" /\ n < MaxAttempts

Cause(kind) == IF kind = "transient" THEN "timeout" ELSE "malformed input"

RecordAttempt(r, e, what) ==
    calls' = [calls EXCEPT ![r][e] = Append(@, what)]

\* The circuit check made before every attempt of a call.
Dispatch(r) ==
    /\ pc[r] = "dispatch"
    /\ running = r
    /\ LET e == stage[r] IN
        IF CircuitRejects(e)
        THEN /\ Raise(r, Exc("ExternalAPIError", "engine", "circuit_open"))
             /\ RecordAttempt(r, e, "rejected")
             /\ UNCHANGED <<circuit>>
        ELSE /\ circuit' = [circuit EXCEPT ![e] = IF @ = "open" THEN "half_open" ELSE @]
             /\ pc' = [pc EXCEPT ![r] = "invoke"]
             /\ UNCHANGED <<running, exc, calls>>
    /\ UNCHANGED <<pending, response, log, metrics, recorded, outcome, fault, stage, attempt,
                   audio_path, failures, elapsed>>
    /\ UNCHANGED <<ctxVars, dataVars, fileVars>>

\* Variant: the counter is written from a count kept by the call itself, so a
\* failure recorded by another request's call is overwritten.
InvokeFailLocalCount(r, kind) ==
    /\ pc[r] = "invoke"
    /\ running = r
    /\ LET e == stage[r] IN
        /\ RecordAttempt(r, e, kind)
        /\ failures' = [failures EXCEPT ![e] = attempt[r]]
        /\ IF circuit[e] = "half_open" \/ attempt[r] >= Threshold
           THEN /\ circuit' = [circuit EXCEPT ![e] = "open"]
                /\ elapsed' = [elapsed EXCEPT ![e] = 0]
           ELSE UNCHANGED <<circuit, elapsed>>
        /\ IF ShouldRetry(kind, attempt[r])
           THEN /\ attempt' = [attempt EXCEPT ![r] = @ + 1]
                /\ pc' = [pc EXCEPT ![r] = "dispatch"]
                /\ UNCHANGED <<running, exc>>
           ELSE /\ Raise(r, Exc("ExternalAPIError", "engine", Cause(kind)))
                /\ UNCHANGED attempt
    /\ UNCHANGED <<pending, response, log, metrics, recorded, outcome, fault, stage,
                   audio_path>>
    /\ UNCHANGED <<ctxVars, dataVars, fileVars>>

\* The engine is invoked and fails: a timeout or 5xx-like error ("transient")
\* or an error the engine signals as permanent.
InvokeFail(r, kind) ==
    /\ pc[r] = "invoke"
    /\ running = r
    /\ LET e == stage[r] IN
        /\ RecordAttempt(r, e, kind)
        /\ failures' = [failures EXCEPT ![e] = @ + 1]
        /\ IF Trips(e)
           THEN /\ circuit' = [circuit EXCEPT ![e] = "open"]
                /\ elapsed' = [elapsed EXCEPT ![e] = 0]
           ELSE UNCHANGED <<circuit, elapsed>>
        /\ IF ShouldRetry(kind, attempt[r])
           THEN /\ attempt' = [attempt EXCEPT ![r] = @ + 1]
                /\ pc' = [pc EXCEPT ![r] = "dispatch"]
                /\ UNCHANGED <<running, exc>>
           ELSE /\ Raise(r, Exc("ExternalAPIError", "engine", Cause(kind)))
                /\ UNCHANGED attempt
    /\ UNCHANGED <<pending, response, log, metrics, recorded, outcome, fault, stage,
                   audio_path>>
    /\ UNCHANGED <<ctxVars, dataVars, fileVars>>

\* The success of an invocation closes the circuit and resets the counter.
CallSucceeds(r, e) ==
    /\ RecordAttempt(r, e, "ok")
    /\ failures' = [failures EXCEPT ![e] = 0]
    /\ circuit' = [circuit EXCEPT ![e] = "closed"]
    /\ elapsed' = [elapsed EXCEPT ![e] = 0]

\* Variant: `transcript_preview=transcript`, the sanitizer left out.
TranscribedLogsRaw(r) ==
    /\ pc[r] = "invoke"
    /\ running = r
    /\ stage[r] = "transcription"
    /\ CallSucceeds(r, "transcription")
    /\ transcript' = [transcript EXCEPT ![r] = RawTranscript]
    /\ Logged(r, "Transcription completed", RawTranscript)
    /\ stage' = [stage EXCEPT ![r] = "analysis"]
    /\ attempt' = [attempt EXCEPT ![r] = 1]
    /\ pc' = [pc EXCEPT ![r] = "dispatch"]
    /\ UNCHANGED <<running, exc, pending, response, metrics, recorded, outcome, fault,
                   analysis, score_data, response_data>>
    /\ UNCHANGED <<ctxVars, fileVars, audio_path>>

\* lines 55-64: transcribe_audio returns; the analysis call is entered
Transcribed(r) ==
    /\ pc[r] = "invoke"
    /\ running = r
    /\ stage[r] = "transcription"
    /\ CallSucceeds(r, "transcription")
    /\ transcript' = [transcript EXCEPT ![r] = RawTranscript]
    /\ Logged(r, "Transcription completed", sanitize_for_logging(RawTranscript))
    /\ stage' = [stage EXCEPT ![r] = "analysis"]
    /\ attempt' = [attempt EXCEPT ![r] = 1]
    /\ pc' = [pc EXCEPT ![r] = "dispatch"]
    /\ UNCHANGED <<running, exc, pending, response, metrics, recorded, outcome, fault,
                   analysis, score_data, response_data>>
    /\ UNCHANGED <<ctxVars, fileVars, audio_path>>

\* lines 65-74: generate_charter_compliant_output returns; scoring is entered
Analysed(r) ==
    /\ pc[r] = "invoke"
    /\ running = r
    /\ stage[r] = "analysis"
    /\ CallSucceeds(r, "analysis")
    /\ analysis' = [analysis EXCEPT ![r] = RawAnalysis]
    /\ Logged(r, "Analysis completed", sanitize_for_logging(RawAnalysis))
    /\ stage' = [stage EXCEPT ![r] = "scoring"]
    /\ attempt' = [attempt EXCEPT ![r] = 1]
    /\ pc' = [pc EXCEPT ![r] = "dispatch"]
    /\ UNCHANGED <<running, exc, pending, response, metrics, recorded, outcome, fault,
                   transcript, score_data, response_data>>
    /\ UNCHANGED <<ctxVars, fileVars, audio_path>>

\* lines 75-81: generate_pedagogical_score returns the mapping m
Scored(r, m) ==
    /\ pc[r] = "invoke"
    /\ running = r
    /\ stage[r] = "scoring"
    /\ CallSucceeds(r, "scoring")
    /\ score_data' = [score_data EXCEPT ![r] = m]
    /\ Logged(r, "Scoring completed",
              IF "score" \in DOMAIN m THEN <<m.score>> ELSE <<>>)
    /\ stage' = [stage EXCEPT ![r] = "none"]
    /\ attempt' = [attempt EXCEPT ![r] = 0]
    /\ pc' = [pc EXCEPT ![r] = "assemble"]
    /\ UNCHANGED <<running, exc, pending, response, metrics, recorded, outcome, fault,
                   transcript, analysis, response_data>>
    /\ UNCHANGED <<ctxVars, fileVars, audio_path>>

\* --------------------------------------- lines 83-95: response assembly
\* Variant: `score_data.get("score") or 50`, which also replaces a score of 0
\* and an empty reasoning.
AnalysisResponseFalsyDefault(a, m) ==
    [analysis |-> a,
     pedagogical_score |->
        IF Get(m, "score", 0) = 0 THEN DefaultScore ELSE m.score,
     score_reasoning |->
        IF Get(m, "reasoning", "") = "" THEN DefaultReasoning ELSE m.reasoning]

AnalysisResponse(a, m) ==
    [analysis |-> a,
     pedagogical_score |-> Get(m, "score", DefaultScore),
     score_reasoning |-> Get(m, "reasoning", DefaultReasoning)]

\* lines 84-92
Assemble(r) ==
    /\ pc[r] = "assemble"
    /\ running = r
    /\ response_data' = [response_data EXCEPT ![r] = AnalysisResponse(analysis[r], score_data[r])]
    /\ pc' = [pc EXCEPT ![r] = "return"]
    /\ UNCHANGED <<running, exc, pending, response, log, metrics, recorded, outcome, fault,
                   transcript, analysis, score_data>>
    /\ UNCHANGED <<ctxVars, callVars, fileVars, breakerVars>>

\* lines 94-95: the flag is set, the envelope is built and returned
ReturnSuccess(r) ==
    /\ pc[r] = "return"
    /\ running = r
    /\ success' = [success EXCEPT ![r] = TRUE]
    /\ pending' = [pending EXCEPT ![r] = SuccessResponse(request_id[r], response_data[r])]
    /\ pc' = [pc EXCEPT ![r] = "finally"]
    /\ UNCHANGED <<running, request_id, temp_path, exc, response, log,
                   metrics, recorded, outcome, fault>>
    /\ UNCHANGED <<dataVars, callVars, fileVars, breakerVars>>

\* lines 94-95: the flag is set, then building the envelope (response_data.dict(),
\* SuccessResponse(...)) raises
ReturnFault(r, ty) ==
    /\ pc[r] = "return"
    /\ running = r
    /\ success' = [success EXCEPT ![r] = TRUE]
    /\ Raise(r, Exc(ty, "defect", DefectText))
    /\ fault' = [fault EXCEPT ![r] = "return"]
    /\ UNCHANGED <<request_id, temp_path, pending, response, log, metrics, recorded, outcome>>
    /\ UNCHANGED <<dataVars, callVars, fileVars, breakerVars>>

\* Variant: no `except ValueError` clause.
ErrorEnvelopeNoValueErrorClause(e) ==
    CASE e.type = "ExternalAPIError" -> HTTPException(502, <<ExternalPrefix, e.msg>>)
      [] OTHER -> HTTPException(500, <<InternalDetail>>)

\* Variant: `except Exception` placed before `except ExternalAPIError`.
ErrorEnvelopeGenericFirst(e) ==
    CASE e.type = "ValueError" -> HTTPException(400, <<e.msg>>)
      [] OTHER -> HTTPException(500, <<InternalDetail>>)

\* -------------------------------------- lines 97-110: the except clauses
\* The clause is selected by the exception's type alone.
ErrorEnvelope(e) ==
    CASE e.type = "ValueError" -> HTTPException(400, <<e.msg>>)
      [] e.type = "ExternalAPIError" -> HTTPException(502, <<ExternalPrefix, e.msg>>)
      [] OTHER -> HTTPException(500, <<InternalDetail>>)

ErrorEvent(e) ==
    CASE e.type = "ValueError" -> "Validation error"
      [] e.type = "ExternalAPIError" -> "External API error"
      [] OTHER -> "Unexpected error"

Handle(r) ==
    /\ pc[r] = "except"
    /\ running = r
    /\ Logged(r, ErrorEvent(exc[r]), <<exc[r].msg>>)
    /\ pending' = [pending EXCEPT ![r] = ErrorEnvelope(exc[r])]
    /\ pc' = [pc EXCEPT ![r] = "finally"]
    /\ UNCHANGED <<running, exc, response, metrics, recorded, outcome, fault>>
    /\ UNCHANGED <<ctxVars, dataVars, callVars, fileVars, breakerVars>>

\* Variant: the cleanup sits in the except clauses instead of a finally
\* block, so a CancelledError leaves the handler without it.
CancelSkipsCleanup(r) ==
    /\ pc[r] \in {"validate", "read"}
    /\ running = 0
    /\ running' = r
    /\ exc' = [exc EXCEPT ![r] = Exc("CancelledError", "cancel", "")]
    /\ pending' = [pending EXCEPT ![r] = Cancelled]
    /\ fault' = [fault EXCEPT ![r] = "cancel"]
    /\ outcome' = [outcome EXCEPT ![r] = "cancelled"]
    /\ pc' = [pc EXCEPT ![r] = "done"]
    /\ UNCHANGED <<response, log, metrics, recorded>>
    /\ UNCHANGED <<ctxVars, dataVars, callVars, fileVars, breakerVars>>

\* A suspended coroutine is cancelled (the caller went away): CancelledError
\* is raised at the await; it is no Exception, so no except clause takes it.
Cancel(r) ==
    /\ pc[r] \in {"validate", "read"}
    /\ running = 0
    /\ running' = r
    /\ exc' = [exc EXCEPT ![r] = Exc("CancelledError", "cancel", "")]
    /\ pending' = [pending EXCEPT ![r] = Cancelled]
    /\ fault' = [fault EXCEPT ![r] = "cancel"]
    /\ pc' = [pc EXCEPT ![r] = "finally"]
    /\ UNCHANGED <<response, log, metrics, recorded, outcome>>
    /\ UNCHANGED <<ctxVars, dataVars, callVars, fileVars, breakerVars>>

\* ------------------------------------- lines 112-126: the finally block
\* DataRetentionPolicy.apply(file_path): the file is overwritten and removed;
\* a failed overwrite is logged, the file is removed all the same, and
\* nothing is raised.  A path that no longer exists is left alone.
apply(r, path, overwritten) ==
    /\ files' = files \ {path}
    /\ written' = written \ {path}
    /\ destroyed' = [destroyed EXCEPT ![r] = IF path \in files THEN @ + 1 ELSE @]
    /\ IF overwritten
       THEN UNCHANGED log
       ELSE Logged(r, "Secure overwrite failed", <<>>)

\* Variant: `if temp_path and success`, the file is removed on success only.
FinallyDestroyOnSuccessOnly(r, overwritten) ==
    /\ pc[r] = "finally"
    /\ running = r
    /\ IF temp_path[r] # 0 /\ success[r]
       THEN apply(r, temp_path[r], overwritten)
       ELSE /\ overwritten
            /\ UNCHANGED <<files, written, destroyed, log>>
    /\ pc' = [pc EXCEPT ![r] = "record"]
    /\ UNCHANGED <<running, exc, pending, response, metrics, recorded, outcome, fault,
                   created>>
    /\ UNCHANGED <<ctxVars, dataVars, callVars, breakerVars>>

\* Variant: the failure of the destruction escapes from the finally block;
\* it replaces what the handler was leaving with, and lines 117-126 do not run.
FinallyDestroyEscalates(r, overwritten) ==
    /\ pc[r] = "finally"
    /\ running = r
    /\ IF temp_path[r] # 0
       THEN apply(r, temp_path[r], overwritten)
       ELSE /\ overwritten
            /\ UNCHANGED <<files, written, destroyed, log>>
    /\ IF temp_path[r] # 0 /\ ~overwritten
       THEN /\ pending' = [pending EXCEPT ![r] = HTTPException(500, <<InternalDetail>>)]
            /\ response' = [response EXCEPT ![r] = <<HTTPException(500, <<InternalDetail>>)>>]
            /\ outcome' = [outcome EXCEPT ![r] = "error"]
            /\ pc' = [pc EXCEPT ![r] = "done"]
       ELSE /\ pc' = [pc EXCEPT ![r] = "record"]
            /\ UNCHANGED <<pending, response, outcome>>
    /\ UNCHANGED <<running, exc, metrics, recorded, fault, created>>
    /\ UNCHANGED <<ctxVars, dataVars, callVars, breakerVars>>

\* lines 114-115
FinallyDestroy(r, overwritten) ==
    /\ pc[r] = "finally"
    /\ running = r
    /\ IF temp_path[r] # 0
       THEN apply(r, temp_path[r], overwritten)
       ELSE /\ overwritten
            /\ UNCHANGED <<files, written, destroyed, log>>
    /\ pc' = [pc EXCEPT ![r] = "record"]
    /\ UNCHANGED <<running, exc, pending, response, metrics, recorded, outcome, fault,
                   created>>
    /\ UNCHANGED <<ctxVars, dataVars, callVars, breakerVars>>

\* metrics_tracker.record_request(duration, success, request_id): the
\* aggregates are updated, once per call, and the record is kept under the
\* request identifier it was given.
record_request(r, ok, rid) ==
    /\ metrics' = [count |-> metrics.count + 1,
                   success_count |-> metrics.success_count + (IF ok THEN 1 ELSE 0)]
    /\ recorded' = [recorded EXCEPT ![rid] = Append(@, ok)]

\* Variant: record_request called at the end of the try block only, so it
\* runs for the requests that succeeded and for no other.
FinallyRecordOnSuccessOnly(r) ==
    /\ pc[r] = "record"
    /\ running = r
    /\ IF success[r]
       THEN record_request(r, success[r], request_id[r])
       ELSE UNCHANGED <<metrics, recorded>>
    /\ pc' = [pc EXCEPT ![r] = "complete"]
    /\ UNCHANGED <<running, exc, pending, response, log, outcome, fault>>
    /\ UNCHANGED <<ctxVars, dataVars, callVars, fileVars, breakerVars>>

\* lines 118-119
FinallyRecord(r) ==
    /\ pc[r] = "record"
    /\ running = r
    /\ record_request(r, success[r], request_id[r])
    /\ pc' = [pc EXCEPT ![r] = "complete"]
    /\ UNCHANGED <<running, exc, pending, response, log, outcome, fault>>
    /\ UNCHANGED <<ctxVars, dataVars, callVars, fileVars, breakerVars>>

\* What leaves the handler is an envelope unless the coroutine was cancelled.
Delivered(out) == IF out.kind \in {"success", "error"} THEN <<out>> ELSE <<>>

\* Variant: the completion line reports whether a Success Envelope is being
\* returned instead of the flag that was given to record_request.
FinallyLogReportsOutcome(r) ==
    /\ pc[r] = "complete"
    /\ running = r
    /\ Logged(r, "Request completed", <<pending[r].kind = "success">>)
    /\ response' = [response EXCEPT ![r] = @ \o Delivered(pending[r])]
    /\ outcome' = [outcome EXCEPT ![r] = pending[r].kind]
    /\ pc' = [pc EXCEPT ![r] = "done"]
    /\ UNCHANGED <<running, exc, pending, metrics, recorded, fault>>
    /\ UNCHANGED <<ctxVars, dataVars, callVars, fileVars, breakerVars>>

\* lines 121-126, then the handler is left with its return value or exception
FinallyLog(r) ==
    /\ pc[r] = "complete"
    /\ running = r
    /\ Logged(r, "Request completed", <<success[r]>>)
    /\ response' = [response EXCEPT ![r] = @ \o Delivered(pending[r])]
    /\ outcome' = [outcome EXCEPT ![r] = pending[r].kind]
    /\ pc' = [pc EXCEPT ![r] = "done"]
    /\ UNCHANGED <<running, exc, pending, metrics, recorded, fault>>
    /\ UNCHANGED <<ctxVars, dataVars, callVars, fileVars, breakerVars>>

\* The coroutine is finished: its frame (the request context and every local)
\* is discarded and the event loop takes the next task.  What outlives the
\* request is the file store, the circuit state, the metrics and `outcome`.
Retire(r) ==
    /\ pc[r] = "done"
    /\ running = r
    /\ running' = 0
    /\ pc' = [pc EXCEPT ![r] = "retired"]
    /\ request_id' = [request_id EXCEPT ![r] = 0]
    /\ temp_path' = [temp_path EXCEPT ![r] = 0]
    /\ success' = [success EXCEPT ![r] = FALSE]
    /\ stage' = [stage EXCEPT ![r] = "none"]
    /\ attempt' = [attempt EXCEPT ![r] = 0]
    /\ transcript' = [transcript EXCEPT ![r] = <<>>]
    /\ analysis' = [analysis EXCEPT ![r] = <<>>]
    /\ score_data' = [score_data EXCEPT ![r] = <<>>]
    /\ response_data' = [response_data EXCEPT ![r] = NoData]
    /\ exc' = [exc EXCEPT ![r] = NoExc]
    /\ pending' = [pending EXCEPT ![r] = NoOutcome]
    /\ response' = [response EXCEPT ![r] = <<>>]
    /\ log' = [log EXCEPT ![r] = <<>>]
    /\ calls' = [calls EXCEPT ![r] = [e \in Engines |-> <<>>]]
    /\ audio_path' = [audio_path EXCEPT ![r] = 0]
    /\ fault' = [fault EXCEPT ![r] = "none"]
    /\ created' = [created EXCEPT ![r] = 0]
    /\ destroyed' = [destroyed EXCEPT ![r] = 0]
    /\ UNCHANGED <<files, written, metrics, recorded, outcome>>
    /\ UNCHANGED breakerVars

\* ------------------------------------------------------------- the clock
\* One unit of time passes.  Only the age of an open circuit is read by the
\* program, and only up to the cool-down, so that is what the clock drives.
Tick ==
    /\ \E e \in Engines : circuit[e] = "open" /\ elapsed[e] < Cooldown
    /\ elapsed' = [e \in Engines |->
                     IF circuit[e] = "open" /\ elapsed[e] < Cooldown
                     THEN elapsed[e] + 1 ELSE elapsed[e]]
    /\ UNCHANGED <<pc, running, exc, pending, response, log, metrics, recorded,
                   outcome, fault, circuit, failures>>
    /\ UNCHANGED <<ctxVars, dataVars, callVars, fileVars>>

Next ==
    \/ \E r \in Requests : Begin(r)
    \/ \E r \in Requests : ValidatePass(r)
    \/ \E r \in Requests : \E msg \in ValidationMessages : ValidateFail(r, msg)
    \/ \E r \in Requests : CreateTemp(r)
    \/ \E r \in Requests : ReadUpload(r)
    \/ \E r \in Requests : WriteUpload(r)
    \/ \E r \in Requests : \E ty \in {"ValueError", "Exception"} : StageFault(r, ty)
    \/ \E r \in Requests : Dispatch(r)
    \/ \E r \in Requests : \E kind \in {"transient", "permanent"} : InvokeFail(r, kind)
    \/ \E r \in Requests : Transcribed(r)
    \/ \E r \in Requests : Analysed(r)
    \/ \E r \in Requests : \E m \in ScoreMaps : Scored(r, m)
    \/ \E r \in Requests : Assemble(r)
    \/ \E r \in Requests : ReturnSuccess(r)
    \/ \E r \in Requests : \E ty \in {"ValueError", "Exception"} : ReturnFault(r, ty)
    \/ \E r \in Requests : Handle(r)
    \/ \E r \in Requests : Cancel(r)
    \/ \E r \in Requests : \E ow \in BOOLEAN : FinallyDestroy(r, ow)
    \/ \E r \in Requests : FinallyRecord(r)
    \/ \E r \in Requests : FinallyLog(r)
    \/ \E r \in Requests : Retire(r)
    \/ Tick

Spec == Init /\ [][Next]_vars

\* ====================================================== the properties
Done(r) == pc[r] = "done"
Last(s) == s[Len(s)]
Events(r) == {log[r][i].event : i \in DOMAIN log[r]}
PassedValidation(r) == "File validation passed" \in Events(r)
IsEnvelope(x) == x.kind \in {"success", "error"}

\* C1: a request that leaves the handler by one of its own paths (validation
\* failure, temp-file failure, engine failure, assembly failure, success)
\* has produced exactly one envelope, a success or an error, and exactly one
\* telemetry record; no request ever has more than one of either.
\* (Cancellation is the subject of C10.)
C1_OneEnvelopeOneRecord ==
    \A r \in Requests :
        /\ Len(response[r]) <= 1
        /\ Len(recorded[r]) <= 1
        /\ (~Done(r)) => response[r] = <<>>
        /\ (Done(r) /\ fault[r] # "cancel") =>
              /\ Len(response[r]) = 1
              /\ IsEnvelope(response[r][1])
              /\ (response[r][1].kind = "success") # (response[r][1].kind = "error")
              /\ Len(recorded[r]) = 1

C1_Witness ==
    \E r \in Requests :
        /\ Done(r)
        /\ fault[r] = "write"
        /\ Len(response[r]) = 1
        /\ response[r][1].kind = "error"
        /\ Len(recorded[r]) = 1

\* C2: when a request is left, record_request has been called exactly once
\* for it, with success = true exactly when the caller got a Success Envelope.
C2_RecordedSuccessIffSuccessEnvelope ==
    \A r \in Requests :
        Done(r) =>
            /\ Len(recorded[r]) = 1
            /\ recorded[r][1] = (response[r] # <<>> /\ response[r][1].kind = "success")

\* C3: an upload that passed validation and got its temp file has had that
\* file created once and destroyed once when the request is left, whatever
\* happened in between; the file no longer exists then, and when no request
\* is in flight the file store is empty.
C3_TempFileCreatedAndDestroyedOnce ==
    /\ \A r \in Requests :
        /\ created[r] <= 1
        /\ destroyed[r] <= created[r]
        /\ (PassedValidation(r) /\ fault[r] # "create" /\ pc[r] # "create")
              => created[r] = 1
        /\ Done(r) =>
              /\ destroyed[r] = created[r]
              /\ temp_path[r] \notin files
    /\ (\A r \in Requests : pc[r] \in {"init", "validate", "retired"}) => files = {}

C3_Witness ==
    \E r \in Requests :
        /\ Done(r)
        /\ PassedValidation(r)
        /\ exc[r].type = "ExternalAPIError"
        /\ created[r] = 1
        /\ destroyed[r] = 1
        /\ files = {}

\* C4: an upload the validator rejects gets the client-error envelope whose
\* detail is the validator's message; no temp file is created for it and
\* none of the three engines is called.
C4_ValidationFailureIsClientError ==
    \A r \in Requests :
        exc[r].origin = "validation" =>
            /\ created[r] = 0
            /\ temp_path[r] = 0
            /\ \A e \in Engines : calls[r][e] = <<>>
            /\ pc[r] \in {"complete", "done"} => pending[r].status = 400
            /\ Done(r) =>
                  /\ Len(response[r]) = 1
                  /\ response[r][1].kind = "error"
                  /\ response[r][1].status = 400
                  /\ response[r][1].detail = <<exc[r].msg>>
                  /\ exc[r].msg \in ValidationMessages

C4_Witness ==
    \E r \in Requests :
        /\ Done(r)
        /\ exc[r].origin = "validation"
        /\ response[r][1].detail = <<"File too large">>
        /\ files = {}

\* The cause the resilient caller reports for the last attempt of a call.
LastCause(r) ==
    LET c == calls[r][stage[r]] IN
        CASE Last(c) = "rejected" -> "circuit_open"
          [] Last(c) = "transient" -> "timeout"
          [] OTHER -> "malformed input"

\* C5: a request whose engine call failed with an external error gets the
\* upstream-error envelope (502) whose detail carries the cause of the last
\* attempt; its temp file has been destroyed and its one telemetry record
\* has success = false.
C5_EngineFailureIsUpstreamError ==
    \A r \in Requests :
        (Done(r) /\ exc[r].type = "ExternalAPIError") =>
            /\ Len(response[r]) = 1
            /\ response[r][1].kind = "error"
            /\ response[r][1].status = 502
            /\ response[r][1].detail = <<"External service error: ", LastCause(r)>>
            /\ created[r] = 1
            /\ destroyed[r] = 1
            /\ temp_path[r] \notin files
            /\ recorded[r] = <<FALSE>>

\* the transcription engine failed on every attempt of the retry budget
C5_Witness ==
    \E r \in Requests :
        /\ Done(r)
        /\ exc[r].type = "ExternalAPIError"
        /\ stage[r] = "transcription"
        /\ Len(calls[r]["transcription"]) = MaxAttempts
        /\ \A i \in 1..MaxAttempts : calls[r]["transcription"][i] = "transient"
        /\ response[r][1].status = 502

\* C6: a failure that is neither a validation failure nor an engine failure
\* gets the generic internal-error envelope, whose detail does not carry the
\* text of the cause; only validation failures get a client-error envelope.
C6_UnclassifiedFailureIsInternalError ==
    \A r \in Requests :
        Done(r) =>
            /\ exc[r].origin \in {"filesystem", "defect"} =>
                  /\ response[r] = <<HTTPException(500, <<"Internal server error">>)>>
                  /\ exc[r].msg \notin Range(response[r][1].detail)
            /\ (response[r] # <<>> /\ response[r][1].status = 400) =>
                  exc[r].origin = "validation"

\* C7: in a Success Envelope pedagogical_score is the scoring mapping's score
\* when it has one and 50 otherwise, and score_reasoning is the mapping's
\* reasoning when it has one and a non-empty default otherwise, each default
\* applied whether or not the other field is present.
C7_ScoreDefaults ==
    \A r \in Requests :
        (Done(r) /\ response[r] # <<>> /\ response[r][1].kind = "success") =>
            LET m == score_data[r]
                d == response[r][1].data
            IN  /\ "score" \in DOMAIN m => d.pedagogical_score = m.score
                /\ "score" \notin DOMAIN m => d.pedagogical_score = 50
                /\ "reasoning" \in DOMAIN m => d.score_reasoning = m.reasoning
                /\ "reasoning" \notin DOMAIN m =>
                      /\ d.score_reasoning = "Score generated"
                      /\ d.score_reasoning # ""
                /\ d.analysis = analysis[r]

\* the mapping has a reasoning and no score
C7_Witness ==
    \E r \in Requests :
        /\ Done(r)
        /\ response[r] # <<>>
        /\ response[r][1].kind = "success"
        /\ DOMAIN score_data[r] = {"reasoning"}
        /\ response[r][1].data.pedagogical_score = 50
        /\ response[r][1].data.score_reasoning = "clear objectives"

\* What an attempt recorded in this step was, "" when the step recorded none.
Attempted(r, e) ==
    IF calls'[r][e] # calls[r][e] /\ calls'[r][e] # <<>> THEN Last(calls'[r][e]) ELSE ""

\* C8: per engine, the circuit is closed only while fewer than Threshold
\* consecutive failures are counted; a call dispatched while the circuit is
\* open and the cool-down has not elapsed fails with circuit_open and the
\* engine is not invoked; after the cool-down the next dispatch makes the
\* circuit half-open and invokes the engine once as a probe; a successful
\* probe closes the circuit with the counter at zero, a failed probe opens
\* it again; on a closed circuit calls are dispatched to the engine.
C8_CircuitBreaker ==
    [][\A e \in Engines :
        /\ circuit[e] = "closed" => failures[e] < Threshold
        /\ circuit'[e] = "closed" => failures'[e] < Threshold
        /\ (circuit[e] = "closed" /\ circuit'[e] # "closed") =>
              (circuit'[e] = "open" /\ failures'[e] >= Threshold /\ elapsed'[e] = 0)
        /\ (circuit[e] = "open" /\ circuit'[e] # "open") =>
              (circuit'[e] = "half_open" /\ elapsed[e] >= Cooldown)
        /\ \A r \in Requests :
            (pc[r] = "dispatch" /\ running = r /\ stage[r] = e) =>
              /\ (circuit[e] = "open" /\ elapsed[e] < Cooldown) =>
                    /\ pc'[r] # "invoke"
                    /\ Attempted(r, e) \in {"", "rejected"}
                    /\ Attempted(r, e) = "rejected" =>
                          /\ exc'[r] = Exc("ExternalAPIError", "engine", "circuit_open")
                          /\ pc'[r] = "except"
                          /\ circuit'[e] = "open"
                          /\ failures'[e] = failures[e]
              /\ (circuit[e] = "open" /\ elapsed[e] >= Cooldown /\ pc'[r] # pc[r]
                      /\ fault'[r] = fault[r]) =>
                    (circuit'[e] = "half_open" /\ pc'[r] = "invoke")
              /\ (circuit[e] = "closed" /\ pc'[r] # pc[r] /\ fault'[r] = fault[r]) =>
                    (circuit'[e] = "closed" /\ pc'[r] = "invoke")
        /\ \A r \in Requests :
            (pc[r] = "invoke" /\ running = r /\ stage[r] = e /\ circuit[e] = "half_open") =>
              /\ Attempted(r, e) = "ok" => (circuit'[e] = "closed" /\ failures'[e] = 0)
              /\ Attempted(r, e) \in {"transient", "permanent"} =>
                    (circuit'[e] = "open" /\ elapsed'[e] = 0)
    ]_vars

\* a probe is in flight: the circuit opened and its cool-down has elapsed
C8_Witness ==
    \E r \in Requests :
        /\ pc[r] = "invoke"
        /\ stage[r] = "transcription"
        /\ circuit["transcription"] = "half_open"
        /\ failures["transcription"] >= Threshold

Invocations(c) == Cardinality({i \in DOMAIN c : c[i] # "rejected"})

\* C9: within one call the engine is invoked at most MaxAttempts times, and
\* only a transient failure is followed by another attempt; a call whose
\* last attempt succeeded, after transient failures or not, raises nothing,
\* and a request all of whose calls ended so (nothing else failing) is left
\* with a Success Envelope and no error.
C9_RetryPolicy ==
    \A r \in Requests :
        /\ \A e \in Engines :
            LET c == calls[r][e] IN
                /\ Invocations(c) <= MaxAttempts
                /\ \A i \in 1..(Len(c) - 1) : c[i] = "transient"
                /\ (c # <<>> /\ Last(c) = "ok") =>
                      ~(exc[r].origin = "engine" /\ stage[r] = e)
                /\ (c # <<>> /\ Last(c) = "transient" /\ fault[r] = "none"
                        /\ pc[r] \notin {"dispatch", "invoke"}) => Len(c) = MaxAttempts
        /\ (Done(r) /\ fault[r] = "none"
                /\ \A e \in Engines : calls[r][e] # <<>> /\ Last(calls[r][e]) = "ok") =>
              /\ response[r] = <<SuccessResponse(request_id[r], response_data[r])>>
              /\ exc[r] = NoExc

\* a transient failure on attempt 1, success on attempt 2, Success Envelope
C9_Witness ==
    \E r \in Requests :
        /\ Done(r)
        /\ calls[r]["transcription"] = <<"transient", "ok">>
        /\ response[r] # <<>>
        /\ response[r][1].kind = "success"

\* C10: a request cancelled at one of its awaits runs nothing but the cleanup:
\* the temp file, if one was created, is destroyed, telemetry is recorded
\* once with success = false, and the event loop stays with the request
\* until the cleanup is finished.
C10_CancelledStillCleansUp ==
    \A r \in Requests :
        fault[r] = "cancel" =>
            /\ pc[r] \in {"finally", "record", "complete", "done"}
            /\ running = r
            /\ success[r] = FALSE
            /\ pc[r] = "finally" => recorded[r] = <<>>
            /\ pc[r] \in {"record", "complete", "done"} =>
                  /\ destroyed[r] = created[r]
                  /\ temp_path[r] \notin files
            /\ pc[r] \in {"complete", "done"} => recorded[r] = <<FALSE>>
            /\ Done(r) => response[r] = <<>>

\* cancelled in `await audio.read()`, after the temp file was created
C10_Witness ==
    \E r \in Requests :
        /\ Done(r)
        /\ fault[r] = "cancel"
        /\ created[r] = 1
        /\ destroyed[r] = 1
        /\ recorded[r] = <<FALSE>>

\* The envelope the pipeline stages of a request have determined.
StageEnvelope(r) ==
    CASE exc[r].type = "none" -> SuccessResponse(request_id[r], response_data[r])
      [] exc[r].type = "CancelledError" -> Cancelled
      [] exc[r].type = "ValueError" -> HTTPException(400, <<exc[r].msg>>)
      [] exc[r].type = "ExternalAPIError" ->
            HTTPException(502, <<"External service error: ", exc[r].msg>>)
      [] OTHER -> HTTPException(500, <<"Internal server error">>)

DestructionFailed(r) == "Secure overwrite failed" \in Events(r)

\* C11: when the destruction of the temp file failed during cleanup, the
\* request is still left with the envelope its pipeline stages determined,
\* telemetry has been recorded exactly once for it, and the completion log
\* line is its last log event.
C11_DestructionFailureNotEscalated ==
    \A r \in Requests :
        DestructionFailed(r) =>
            /\ pc[r] \in {"record", "complete", "done"}
            /\ pending[r] = StageEnvelope(r)
            /\ Done(r) =>
                  /\ response[r] = Delivered(StageEnvelope(r))
                  /\ Len(recorded[r]) = 1
                  /\ Last(log[r]).event = "Request completed"

\* the destruction failed in a request whose transcription had failed
C11_Witness ==
    \E r \in Requests :
        /\ Done(r)
        /\ DestructionFailed(r)
        /\ exc[r].type = "ExternalAPIError"
        /\ response[r][1].status = 502
        /\ Len(recorded[r]) = 1

\* The words of a text that the sanitizer cuts off.
Hidden(text) == {text[j] : j \in (PreviewLen + 1)..Len(text)}

ContentEvents == {"Transcription completed", "Analysis completed"}
ValueEvents == {"Scoring completed", "Request completed"}

EndedOk(r, e) == calls[r][e] # <<>> /\ Last(calls[r][e]) = "ok"

\* C13: within a request a stage starts only when the one before it has
\* completed: the temp file is created after validation passed, the bytes
\* are written into the created file, transcription is attempted only with
\* the bytes written, analysis only with a transcript, scoring only with an
\* analysis, the response is assembled only after scoring succeeded; and
\* once a stage has failed no stage starts or completes any more.
C13_StagesInOrder ==
    [][\A r \in Requests :
        /\ created'[r] > created[r] =>
              (PassedValidation(r) /\ pc[r] = "create")
        /\ (temp_path[r] # 0 /\ temp_path[r] \notin written /\ temp_path[r] \in written') =>
              (created[r] = 1 /\ temp_path[r] \in files /\ pc[r] = "write")
        /\ Attempted(r, "transcription") # "" =>
              (temp_path[r] \in files /\ temp_path[r] \in written)
        /\ Attempted(r, "analysis") # "" =>
              (EndedOk(r, "transcription") /\ transcript[r] = RawTranscript)
        /\ Attempted(r, "scoring") # "" =>
              (EndedOk(r, "analysis") /\ analysis[r] = RawAnalysis)
        /\ (response_data'[r] # response_data[r] /\ response_data'[r] # NoData) =>
              (EndedOk(r, "scoring") /\ response_data'[r].analysis = analysis[r])
        /\ (pending'[r].kind = "success" /\ pending[r].kind # "success") =>
              response_data[r] # NoData
        /\ exc[r] # NoExc =>
              /\ created'[r] <= created[r]
              /\ \A e \in Engines : Attempted(r, e) = ""
              /\ (temp_path[r] \notin written => temp_path[r] \notin written')
              /\ transcript'[r] \in {transcript[r], <<>>}
              /\ analysis'[r] \in {analysis[r], <<>>}
              /\ response_data'[r] \in {response_data[r], NoData}
              /\ pending'[r].kind # "success"
    ]_vars

\* the scoring engine is being invoked, everything before it is in place
C13_Witness ==
    \E r \in Requests :
        /\ pc[r] = "invoke"
        /\ stage[r] = "scoring"
        /\ temp_path[r] \in written
        /\ transcript[r] # <<>>
        /\ analysis[r] # <<>>

CleanupPcs == {"finally", "record", "complete", "done"}
Completions(r) == {i \in DOMAIN log[r] : log[r][i].event = "Request completed"}

C14_CleanupState ==
    \A r \in Requests :
        /\ pc[r] \notin (CleanupPcs \cup {"retired"}) =>
              (destroyed[r] = 0 /\ recorded[r] = <<>> /\ Completions(r) = {})
        /\ pc[r] = "finally" =>
              (destroyed[r] = 0 /\ recorded[r] = <<>> /\ Completions(r) = {})
        /\ pc[r] = "record" =>
              /\ destroyed[r] = created[r]
              /\ temp_path[r] \notin files
              /\ recorded[r] = <<>>
              /\ Completions(r) = {}
        /\ pc[r] = "complete" =>
              /\ destroyed[r] = created[r]
              /\ recorded[r] = <<success[r]>>
              /\ Completions(r) = {}
        /\ Done(r) =>
              /\ destroyed[r] = created[r]
              /\ recorded[r] = <<success[r]>>
              /\ Completions(r) = {Len(log[r])}
              /\ Last(log[r]).field = <<recorded[r][1]>>

C14_CleanupStep ==
    \A r \in Requests :
        /\ pc[r] \in CleanupPcs =>
              /\ \A e \in Engines : Attempted(r, e) = ""
              /\ created'[r] <= created[r]
              /\ written' \subseteq written
              /\ pending'[r] \in {pending[r], NoOutcome}
              /\ pc'[r] \in CleanupPcs \cup {"retired"}
        /\ (pc[r] = "finally" /\ running = r /\ temp_path[r] = 0) =>
              (files' = files /\ destroyed'[r] = destroyed[r])
        /\ destroyed'[r] > destroyed[r] => (pc[r] = "finally" /\ temp_path[r] \in files)
        /\ Len(recorded'[r]) > Len(recorded[r]) => pc[r] = "record"

\* C14: the cleanup starts when the pipeline stages are over and runs no
\* stage; it destroys the temp file (and touches the file store only if the
\* request created a file), then records telemetry with the success flag,
\* then logs the completion line, which is the request's last log event and
\* reports the success value that was recorded.
C14_CleanupOrder == []C14_CleanupState /\ [][C14_CleanupStep]_vars

\* a failed request with a temp file: destroyed, recorded, completion logged
C14_Witness ==
    \E r \in Requests :
        /\ Done(r)
        /\ created[r] = 1
        /\ destroyed[r] = 1
        /\ recorded[r] = <<FALSE>>
        /\ Last(log[r]) = Event("Request completed", <<FALSE>>)
        /\ exc[r].type = "Exception"

FailedNow(e) == {r \in Requests : Attempted(r, e) \in {"transient", "permanent"}}
SucceededNow(e) == {r \in Requests : Attempted(r, e) = "ok"}

C15_BreakerState ==
    \A e \in Engines : failures[e] >= Threshold => circuit[e] # "closed"

C15_BreakerStep ==
    \A e \in Engines :
        /\ FailedNow(e) # {} =>
              /\ failures'[e] = failures[e] + Cardinality(FailedNow(e))
              /\ failures'[e] >= Threshold => circuit'[e] = "open"
        /\ SucceededNow(e) # {} => (failures'[e] = 0 /\ circuit'[e] = "closed")
        /\ (FailedNow(e) = {} /\ SucceededNow(e) = {}) => failures'[e] = failures[e]
        /\ (circuit'[e] # circuit[e] \/ failures'[e] # failures[e]) =>
              /\ running \in Requests
              /\ pc[running] \in {"dispatch", "invoke"}
              /\ stage[running] = e

\* C15: whichever requests' calls fail on an engine and in whatever order,
\* every failed invocation adds exactly one to that engine's counter in the
\* same step that decides its circuit state, only a successful invocation
\* resets it, the circuit is not closed while the counter is at the threshold
\* or above, and an engine's counter and circuit change only in a step of a
\* call to that engine.
C15_CounterAndCircuitTogether == []C15_BreakerState /\ [][C15_BreakerStep]_vars

\* one failure each from two requests' calls to the same engine opened its circuit
C15_Witness ==
    \E r, q \in Requests : \E e \in Engines :
        /\ r # q
        /\ outcome[q] = "error"
        /\ calls[r][e] = <<"permanent">>
        /\ failures[e] = Threshold
        /\ circuit[e] = "open"
        /\ \A d \in Engines \ {e} : circuit[d] = "closed" /\ failures[d] = 0

AllCompleted == \A r \in Requests : pc[r] = "retired"
SuccessEnvelopes == {r \in Requests : outcome[r] = "success"}

\* C16: when every request has run to completion, the metrics aggregate has
\* counted each of them once, its success count is the number of requests
\* that returned a Success Envelope, and there is one telemetry record under
\* each request's identifier.
C16_AggregateMatchesOutcomes ==
    AllCompleted =>
        /\ metrics.count = NumRequests
        /\ metrics.success_count = Cardinality(SuccessEnvelopes)
        /\ \A r \in Requests : Len(recorded[r]) = 1

\* The requests whose temp-file reference is the path p.
Holders(p) == {r \in Requests : temp_path[r] = p}

C17_OwnershipState ==
    /\ \A p \in files : Cardinality(Holders(p)) = 1
    /\ \A r \in Requests :
        /\ temp_path[r] # 0 => (created[r] = 1 /\ Cardinality(Holders(temp_path[r])) = 1)
        /\ audio_path[r] # 0 =>
              /\ audio_path[r] = temp_path[r]
              /\ Holders(audio_path[r]) = {r}
    /\ (\A r \in Requests : pc[r] \in {"init", "retired"}) => files = {}
    /\ AllCompleted => (files = {} /\ written = {})

C17_OwnershipStep ==
    /\ \A r \in Requests :
        /\ created'[r] > created[r] =>
              /\ temp_path'[r] \notin files
              /\ files' = files \cup {temp_path'[r]}
              /\ \A q \in Requests \ {r} : temp_path'[q] = temp_path[q]
        /\ (temp_path[r] # 0 /\ temp_path'[r] # temp_path[r]) =>
              (temp_path'[r] = 0 /\ pc[r] = "done" /\ temp_path[r] \notin files)
    /\ \A r \in Requests :
        Attempted(r, "transcription") # "" =>
              /\ audio_path[r] \in files \cap written
              /\ Holders(audio_path[r]) = {r}
    /\ \A p \in files \ files' :
        /\ running \in Requests
        /\ pc[running] = "finally"
        /\ Holders(p) = {running}
        /\ destroyed'[running] = destroyed[running] + 1
    /\ \A p \in written' \ written :
        /\ running \in Requests
        /\ Holders(p) = {running}

\* C17: at every moment each existing temp file is referenced by exactly one
\* request, the one whose create step made it; a request's reference never
\* changes to another file; a file is removed only by the cleanup of the
\* request that holds it and bytes are written only into the writer's own
\* file; the path given to transcription is the request's own written file;
\* and when no request is in flight no temp file exists.
C17_TempFileOwnedByItsRequest == []C17_OwnershipState /\ [][C17_OwnershipStep]_vars

\* two requests hold a temp file each at the same time; one is transcribing
\* its own file while the other is suspended in its read
C17_Witness ==
    \E r, q \in Requests :
        /\ r # q
        /\ temp_path[r] \in files
        /\ temp_path[q] \in files
        /\ pc[q] = "read"
        /\ pc[r] = "invoke"
        /\ stage[r] = "transcription"
        /\ audio_path[r] = temp_path[r]

====
